---------------------------- MODULE Spec2Model ----------------------------
(***************************************************************************)
(* BenaPRO: evaluation ledger (resultado.json), rating dialog, ZIP loader  *)
(* thread and the MainWindow session that drives them.                     *)
(* Source: src/Código Fonte/BenaPRO.py                                     *)
(***************************************************************************)
EXTENDS Integers, Sequences, FiniteSets, TLC

(***************************************************************************)
(* Bounds of the model                                                     *)
(***************************************************************************)
\* save attempts per run; get_current_timestamp is read from `clock`
MaxClock == 2

(***************************************************************************)
(* Program constants                                                       *)
(***************************************************************************)
\* AvaliacaoDialog.create_erro_frame_optimized: for i in range(5)
NumStars == 5

\* the star buttons the modelled user clicks: the first and the last one
ClickStars == {0, NumStars - 1}

\* archives the user can pick in QFileDialog (basename of the path)
Archives == {"C_2024 05.zip", "B.zip"}

\* hasattr(self, 'current_zip_name') is False
NoZip == "<unset>"

\* the lists ErroDialog.get_selections returns in the model, as (nome, descricao)
\* pairs: one error, two descriptions of one error name, and one pair twice
\* (catalogo_erros.json can list a description twice)
Selections ==
    { << <<"E1", "d1">> >>,
      << <<"E1", "d2">>, <<"E1", "d1">> >>,
      << <<"E1", "d1">>, <<"E1", "d1">> >> }

\* a Python dict with no key
EmptyDict == [k \in {} |-> <<>>]

\* range(n) of Python
Range(n) == 0 .. (n - 1)

VARIABLES
    resultado_file,            \* BENAPRO/resultado.json on disk: [kind, data]
    clock,                     \* wall clock read by get_current_timestamp
    media_files,               \* MainWindow.media_files (Python list, 0-based: item k is media_files[k+1])
    current_media_index,       \* MainWindow.current_media_index (0-based)
    current_zip_name,          \* MainWindow.current_zip_name
    evaluated_files,           \* MainWindow.evaluated_files
    erros_atuais,              \* MainWindow.erros_atuais: list of [nome, descricao, avaliacao]; avaliacao = 0: no 'avaliacao' key
    ultimo_estado_avaliacao,   \* MainWindow.ultimo_estado_avaliacao: [none, alias, d]
    avaliacao_dialog,          \* MainWindow.avaliacao_dialog: [exists, visible, n, erros, avaliacoes];
                               \* erros is erros_selecionados, n its length
    last_save,                 \* the last salvar_anotacao run that got past its guards: the value
                               \* save_resultado_json returned, the QMessageBox shown, whether
                               \* the merge loop skipped a pending error whose rating differs
                               \* from the entry kept, and whether the run before it had failed
    threads,                   \* the ZipLoaderThread objects not yet discarded, oldest first:
                               \* [zip, dir, pc, i, emitted]; dir is the thread's temp_dir on disk,
                               \* [exists, files]; self.temp_dir is the dir of the last one
    main_queue,                \* finished/error signals queued to the GUI thread
    peer                       \* a second running instance of the program that writes the same
                               \* resultado.json: its position in salvar_anotacao ("idle": not
                               \* saving, "loaded": between line 1859 and line 1899), the ledger
                               \* it loaded, its archive name, item and pending errors

vars == <<resultado_file, clock, media_files, current_media_index, current_zip_name,
          evaluated_files, erros_atuais, ultimo_estado_avaliacao, avaliacao_dialog,
          last_save, threads, main_queue, peer>>

(***************************************************************************)
(* resultado.json: load and save                                           *)
(***************************************************************************)
\* the file with a complete JSON document `data`
FileOk(data) == [kind |-> "ok", data |-> data]

\* no file at the path
FileAbsent == [kind |-> "absent", data |-> EmptyDict]

\* a file open(..., 'w') truncated and json.dump did not complete
FilePartial == [kind |-> "partial", data |-> EmptyDict]

\* the body of the try block of load_resultado_json: open(...,'r') then json.load.
\* io = FALSE: the operating system refuses the open or the read.
ReadJson(file, io) ==
    IF ~io THEN [exc |-> "OSError", value |-> EmptyDict]
    ELSE IF file.kind = "partial" THEN [exc |-> "JSONDecodeError", value |-> EmptyDict]
    ELSE [exc |-> "none", value |-> file.data]

\* mutant: the handler catches json.JSONDecodeError only
load_resultado_json_narrow_except(file, io) ==
    IF file.kind # "absent"
    THEN LET r == ReadJson(file, io) IN
         IF r.exc = "none" THEN [raised |-> FALSE, value |-> r.value]
         ELSE IF r.exc = "JSONDecodeError" THEN [raised |-> FALSE, value |-> EmptyDict]
         ELSE [raised |-> TRUE, value |-> EmptyDict]
    ELSE [raised |-> FALSE, value |-> EmptyDict]

\* MainWindow.load_resultado_json: what the caller gets
load_resultado_json(file, io) ==
    IF file.kind # "absent"
    THEN LET r == ReadJson(file, io) IN
         IF r.exc = "none" THEN [raised |-> FALSE, value |-> r.value]
         ELSE [raised |-> FALSE, value |-> EmptyDict]   \* except Exception: print; fall through to return {}
    ELSE [raised |-> FALSE, value |-> EmptyDict]

\* outcomes of the write the operating system can produce
WriteOutcomes == {"ok", "open_fails", "dump_fails"}

\* MainWindow.save_resultado_json: [ret, file] for a write with outcome w.
\* open(..., 'w') truncates the file before json.dump writes anything.
save_resultado_json(file, data, w) ==
    IF w = "open_fails" THEN [ret |-> FALSE, file |-> file]
    ELSE IF w = "dump_fails" THEN [ret |-> FALSE, file |-> FilePartial]
    ELSE [ret |-> TRUE, file |-> FileOk(data)]

(***************************************************************************)
(* ZipLoaderThread: catalog construction                                   *)
(***************************************************************************)
\* str.lower() on the strings that occur in the modelled archives
Lower(s) ==
    CASE s = "PNG" -> "png"
      [] s = "JPG" -> "jpg"
      [] s = "Indic" -> "indic"
      [] s = "D" -> "d"
      [] s = "2D" -> "2d"
      [] OTHER -> s

\* ZipLoaderThread.valid_extensions (without the leading dot)
valid_extensions == {"jpg", "jpeg", "png", "bmp", "gif", "webp", "tif", "tiff"}

\* os.path.basename of the path the user picked; "v2/B.zip" is a second
\* archive file with the base name B.zip, every other archive is named by
\* its base name
Basename(path) == IF path = "v2/B.zip" THEN "B.zip" ELSE path

\* the members (zip_ref.namelist()) of each archive: directory segments, then
\* the file name as its '_'-separated tokens and its extension
ZipMembers(zip) ==
    IF zip = "C_2024 05.zip"
    THEN << [dirs |-> <<"15", "S1">>, file |-> [stem |-> <<"indic", "d">>, ext |-> "jpg"]],
            [dirs |-> <<"15", "S1">>, file |-> [stem |-> <<"medio", "1e">>, ext |-> "PNG"]],
            [dirs |-> <<>>,           file |-> [stem |-> <<"notes">>, ext |-> "txt"]] >>
    ELSE IF zip = "E.zip"
    THEN << [dirs |-> <<"S1">>,       file |-> [stem |-> <<"notes">>, ext |-> "txt"]] >>
    ELSE IF zip = "D.zip"
    THEN << [dirs |-> <<"S1">>,       file |-> [stem |-> <<"indic", "d">>, ext |-> "jpg"]],
            [dirs |-> <<"S2">>,       file |-> [stem |-> <<"indic", "d">>, ext |-> "jpg"]],
            [dirs |-> <<"S2">>,       file |-> [stem |-> <<"medio", "1e">>, ext |-> "PNG"]] >>
    ELSE IF zip = "v2/B.zip"
    THEN << [dirs |-> <<"S1">>,       file |-> [stem |-> <<"medio", "1e">>, ext |-> "PNG"]],
            [dirs |-> <<"S1">>,       file |-> [stem |-> <<"medio", "d">>, ext |-> "jpg"]] >>
    ELSE << [dirs |-> <<"S1">>,       file |-> [stem |-> <<"indic", "d">>, ext |-> "jpg"]] >>

\* regex_date.search(basename): (ano, mes), or ("????", "??") without a match
regex_date(zip) ==
    IF Basename(zip) = "C_2024 05.zip" THEN <<"2024", "05">> ELSE <<"????", "??">>

\* finger_map of extract_dedo_info ("" when the token is no key)
finger_map(t) ==
    CASE t = "dedao" -> "Dedão"
      [] t = "indic" -> "Indicador"
      [] t = "medio" -> "Médio"
      [] t = "anel"  -> "Anelar"
      [] t = "mind"  -> "Mindinho"
      [] OTHER -> ""

\* side_map of extract_dedo_info
side_map(c) == IF c = "d" THEN "Direita" ELSE "Esquerda"

\* len(part) == 2 and part[0].isdigit() and part[1] in ['d','e']: the second
\* character of such a token, "" for any other token
DigitSide(t) ==
    IF t \in {"0d", "1d", "2d", "3d", "4d", "5d", "6d", "7d", "8d", "9d"} THEN "d"
    ELSE IF t \in {"0e", "1e", "2e", "3e", "4e", "5e", "6e", "7e", "8e", "9e"} THEN "e"
    ELSE ""

\* mutant: the first matching token of each category wins
RECURSIVE ScanParts_first_match(_, _, _, _)
ScanParts_first_match(parts, k, finger, side) ==
    IF k > Len(parts) THEN <<finger, side>>
    ELSE LET part == Lower(parts[k])
             f1 == IF finger_map(part) # "" /\ finger = "" THEN finger_map(part) ELSE finger
             s1 == IF part \in {"d", "e"} /\ side = "" THEN side_map(part) ELSE side
             s2 == IF DigitSide(part) # "" /\ side = "" THEN side_map(DigitSide(part)) ELSE s1
         IN ScanParts_first_match(parts, k + 1, f1, s2)

\* the for loop of extract_dedo_info from token k on: <<found_finger, found_side>>
RECURSIVE ScanParts(_, _, _, _)
ScanParts(parts, k, finger, side) ==
    IF k > Len(parts) THEN <<finger, side>>
    ELSE LET part == Lower(parts[k])
             f1 == IF finger_map(part) # "" THEN finger_map(part) ELSE finger
             s1 == IF part \in {"d", "e"} THEN side_map(part) ELSE side
             s2 == IF DigitSide(part) # "" THEN side_map(DigitSide(part)) ELSE s1
         IN ScanParts(parts, k + 1, f1, s2)

\* ZipLoaderThread.extract_dedo_info; the label "{finger} - {side}" is kept as a pair
extract_dedo_info(stem) ==
    LET r == ScanParts(stem, 1, "", "") IN
    IF r[1] # "" /\ r[2] # "" THEN <<r[1], r[2]>>
    ELSE IF r[1] # "" THEN <<r[1]>>
    ELSE <<"Desconhecido">>

\* mutant: the day is the first path segment instead of the third from last
MediaItem_day_from_top(zip, m) ==
    LET n == Len(m.dirs) + 1
        dia == IF n >= 3 THEN m.dirs[1] ELSE "??"
        id_folder == IF n >= 2 THEN m.dirs[n - 1] ELSE "Unknown"
    IN [file_path |-> [dirs |-> m.dirs, file |-> m.file],
        filename  |-> m.file,
        data      |-> <<dia, regex_date(zip)[2], regex_date(zip)[1]>>,
        id        |-> id_folder,
        dedo      |-> extract_dedo_info(m.file.stem)]

\* the media item organize_files builds for one file found under temp_dir
MediaItem(zip, m) ==
    LET n == Len(m.dirs) + 1      \* len(path_parts): the directories and the file
        dia == IF n >= 3 THEN m.dirs[n - 2] ELSE "??"          \* path_parts[-3]
        id_folder == IF n >= 2 THEN m.dirs[n - 1] ELSE "Unknown"   \* path_parts[-2]
    IN [file_path |-> [dirs |-> m.dirs, file |-> m.file],   \* below temp_dir
        filename  |-> m.file,
        data      |-> <<dia, regex_date(zip)[2], regex_date(zip)[1]>>,
        id        |-> id_folder,
        dedo      |-> extract_dedo_info(m.file.stem)]

\* the code points of the strings that occur in the model
Chars(s) ==
    CASE s = "15" -> <<49, 53>>
      [] s = "S1" -> <<83, 49>>
      [] s = "S2" -> <<83, 50>>
      [] s = "1-" -> <<49, 45>>
      [] s = "1" -> <<49>>
      [] s = "a" -> <<97>>
      [] s = "??" -> <<63, 63>>
      [] s = "????" -> <<63, 63, 63, 63>>
      [] s = "Unknown" -> <<85, 110, 107, 110, 111, 119, 110>>
      [] s = "2024" -> <<50, 48, 50, 52>>
      [] s = "05" -> <<48, 53>>
      [] s = "indic" -> <<105, 110, 100, 105, 99>>
      [] s = "medio" -> <<109, 101, 100, 105, 111>>
      [] s = "notes" -> <<110, 111, 116, 101, 115>>
      [] s = "d" -> <<100>>
      [] s = "e" -> <<101>>
      [] s = "1e" -> <<49, 101>>
      [] s = "x" -> <<120>>
      [] s = "Indic" -> <<73, 110, 100, 105, 99>>
      [] s = "D" -> <<68>>
      [] s = "2D" -> <<50, 68>>
      [] s = "jpg" -> <<106, 112, 103>>
      [] s = "PNG" -> <<80, 78, 71>>
      [] s = "txt" -> <<116, 120, 116>>
      [] s = "JPG" -> <<74, 80, 71>>

\* '_'.join(tokens)
RECURSIVE JoinTokens(_)
JoinTokens(tokens) ==
    IF tokens = <<>> THEN <<>>
    ELSE IF Len(tokens) = 1 THEN Chars(tokens[1])
    ELSE Chars(tokens[1]) \o <<95>> \o JoinTokens(Tail(tokens))

\* the string item['filename']: the name with its dot and extension
FilenameStr(filename) == JoinTokens(filename.stem) \o <<46>> \o Chars(filename.ext)

\* the string f"{dia}/{mes}/{ano}"
DataStr(data) == Chars(data[1]) \o <<47>> \o Chars(data[2]) \o <<47>> \o Chars(data[3])

\* s < t for two Python strings: the first differing code point decides, a
\* proper prefix is smaller
StrLess(s, t) ==
    \E i \in 1 .. (Len(s) + 1) :
        /\ i <= Len(t)
        /\ \A j \in 1 .. (i - 1) : s[j] = t[j]
        /\ (i = Len(s) + 1 \/ s[i] < t[i])

\* key(a) <= key(b) for the sort key (data, id, filename) of organize_files:
\* Python compares the tuples component by component
KeyLeq(a, b) ==
    LET ka == <<DataStr(a.data), Chars(a.id), FilenameStr(a.filename)>>
        kb == <<DataStr(b.data), Chars(b.id), FilenameStr(b.filename)>>
    IN \/ StrLess(ka[1], kb[1])
       \/ ka[1] = kb[1] /\ StrLess(ka[2], kb[2])
       \/ ka[1] = kb[1] /\ ka[2] = kb[2] /\ ~StrLess(kb[3], ka[3])

\* mutant: x is inserted before the items whose key equals its key
RECURSIVE InsertSorted_before_equal(_, _)
InsertSorted_before_equal(s, x) ==
    IF s = <<>> THEN <<x>>
    ELSE IF KeyLeq(Head(s), x) /\ ~KeyLeq(x, Head(s))
    THEN <<Head(s)>> \o InsertSorted_before_equal(Tail(s), x)
    ELSE <<x>> \o s

\* insert x into the sorted list s after every item whose key is <= key(x)
RECURSIVE InsertSorted(_, _)
InsertSorted(s, x) ==
    IF s = <<>> THEN <<x>>
    ELSE IF KeyLeq(Head(s), x) THEN <<Head(s)>> \o InsertSorted(Tail(s), x)
    ELSE <<x>> \o s

\* mutant: the list is returned in walk order
SortItems_unsorted(s) == s

\* list.sort(key=...): a stable sort
RECURSIVE SortItems(_)
SortItems(s) ==
    IF s = <<>> THEN <<>>
    ELSE InsertSorted(SortItems(SubSeq(s, 1, Len(s) - 1)), s[Len(s)])

\* mutant: the extension is compared without lower()
RECURSIVE KeptItems_case_sensitive(_, _)
KeptItems_case_sensitive(zip, found) ==
    IF found = <<>> THEN <<>>
    ELSE LET m == Head(found)
             rest == KeptItems_case_sensitive(zip, Tail(found))
         IN IF m.file.ext \notin valid_extensions THEN rest
            ELSE <<MediaItem(zip, m)>> \o rest

\* the files of `found` that pass the extension filter, as media items, in walk order
RECURSIVE KeptItems(_, _)
KeptItems(zip, found) ==
    IF found = <<>> THEN <<>>
    ELSE LET m == Head(found)
             rest == KeptItems(zip, Tail(found))
         IN IF Lower(m.file.ext) \notin valid_extensions THEN rest
            ELSE <<MediaItem(zip, m)>> \o rest

\* ZipLoaderThread.organize_files over the files present under temp_dir
organize_files(zip, found) == SortItems(KeptItems(zip, found))

(***************************************************************************)
(* ZipLoaderThread.run                                                     *)
(***************************************************************************)
\* the (done, total) pairs with total < 60 at which the double product
\* (done / total) * 100 falls below the exact quotient, which is an integer:
\* (29 / 50) * 100 is 57.99999999999999
FloatShort == {<<29, 50>>}

\* int(((i + 1) / total_files) * 100) for i + 1 = done: the double quotient
\* times 100, truncated towards zero
percent(done, total) ==
    IF <<done, total>> \in FloatShort THEN ((done * 100) \div total) - 1
    ELSE (done * 100) \div total

\* a signal emitted by the thread
Progress(p) == [sig |-> "progress", val |-> p, media |-> <<>>]
Finished(media) == [sig |-> "finished", val |-> 100, media |-> media]
Error == [sig |-> "error", val |-> 0, media |-> <<>>]

\* zip_ref.extract(member, temp_dir) creates the directories it needs
Extracted(d, m) == [exists |-> TRUE, files |-> Append(d.files, m)]

\* run, first step: progress 0, then zipfile.ZipFile(...) and namelist();
\* ok = FALSE: opening the archive raises
ThreadOpen(k, ok) ==
    /\ k \in 1 .. Len(threads)
    /\ threads[k].pc = "open"
    /\ LET t == threads[k]
           total == Len(ZipMembers(t.zip))
       IN IF ~ok
          THEN /\ threads' = [threads EXCEPT ![k].pc = "done",
                                 ![k].emitted = t.emitted \o <<Progress(0), Error>>]
               /\ main_queue' = Append(main_queue, Error)
          ELSE /\ threads' = [threads EXCEPT ![k].pc = IF total = 0 THEN "organize" ELSE "extract",
                                 ![k].emitted = Append(t.emitted, Progress(0))]
               /\ main_queue' = main_queue
    /\ UNCHANGED <<resultado_file, clock, media_files, current_media_index, current_zip_name,
                   evaluated_files, erros_atuais, ultimo_estado_avaliacao, avaliacao_dialog,
                   last_save>>
    /\ UNCHANGED peer

\* mutant: the loop swallows the failure of one member and goes on
ThreadExtract_continue_after_error(k, ok) ==
    /\ k \in 1 .. Len(threads)
    /\ threads[k].pc = "extract"
    /\ LET t == threads[k]
           members == ZipMembers(t.zip)
           total == Len(members)
       IN /\ threads' = [threads EXCEPT ![k].i = t.i + 1,
                            ![k].dir = IF ok THEN Extracted(@, members[t.i + 1]) ELSE @,
                            ![k].pc = IF t.i + 1 = total THEN "organize" ELSE "extract",
                            ![k].emitted = Append(t.emitted,
                                 IF ok THEN Progress(percent(t.i + 1, total)) ELSE Error)]
          /\ main_queue' = IF ok THEN main_queue ELSE Append(main_queue, Error)
    /\ UNCHANGED <<resultado_file, clock, media_files, current_media_index, current_zip_name,
                   evaluated_files, erros_atuais, ultimo_estado_avaliacao, avaliacao_dialog,
                   last_save>>
    /\ UNCHANGED peer

\* run, one iteration of the for loop; ok = FALSE: zip_ref.extract raises
ThreadExtract(k, ok) ==
    /\ k \in 1 .. Len(threads)
    /\ threads[k].pc = "extract"
    /\ LET t == threads[k]
           members == ZipMembers(t.zip)
           total == Len(members)
       IN IF ~ok
          THEN /\ threads' = [threads EXCEPT ![k].pc = "done",
                                 ![k].emitted = Append(t.emitted, Error)]
               /\ main_queue' = Append(main_queue, Error)
          ELSE /\ threads' = [threads EXCEPT ![k].i = t.i + 1,
                                 ![k].dir = Extracted(@, members[t.i + 1]),
                                 ![k].pc = IF t.i + 1 = total THEN "organize" ELSE "extract",
                                 ![k].emitted = Append(t.emitted, Progress(percent(t.i + 1, total)))]
               /\ main_queue' = main_queue
    /\ UNCHANGED <<resultado_file, clock, media_files, current_media_index, current_zip_name,
                   evaluated_files, erros_atuais, ultimo_estado_avaliacao, avaliacao_dialog,
                   last_save>>
    /\ UNCHANGED peer

\* run, after the with block: progress 100, organize_files, finished
ThreadOrganize(k) ==
    /\ k \in 1 .. Len(threads)
    /\ threads[k].pc = "organize"
    /\ LET t == threads[k]
           media == organize_files(t.zip, IF t.dir.exists THEN t.dir.files ELSE <<>>)
       IN /\ threads' = [threads EXCEPT ![k].pc = "done",
                            ![k].emitted = t.emitted \o <<Progress(100), Finished(media)>>]
          /\ main_queue' = Append(main_queue, Finished(media))
    /\ UNCHANGED <<resultado_file, clock, media_files, current_media_index, current_zip_name,
                   evaluated_files, erros_atuais, ultimo_estado_avaliacao, avaliacao_dialog,
                   last_save>>
    /\ UNCHANGED peer

(***************************************************************************)
(* MainWindow: loading an archive                                          *)
(***************************************************************************)
\* mutant: the guard lets every action through
verificar_zip_carregado_always == TRUE

\* MainWindow.verificar_zip_carregado
verificar_zip_carregado == media_files # <<>>

\* shutil.rmtree(self.temp_dir) when the attribute is set and the path exists
Rmtree(ts) ==
    IF ts # <<>> /\ ts[Len(ts)].dir.exists
    THEN [ts EXCEPT ![Len(ts)].dir = [exists |-> FALSE, files |-> <<>>]]
    ELSE ts

\* the thread objects that still run; a finished one is unreachable once
\* self.zip_thread is rebound, and its directory was removed
IsRunning(t) == t.pc # "done"

\* MainWindow.load_zip_file with the archive the user picked
load_zip_file(zip) ==
    /\ current_zip_name' = Basename(zip)
    /\ media_files' = <<>>
    /\ current_media_index' = 0
    /\ threads' = Append(SelectSeq(Rmtree(threads), IsRunning),
                          [zip |-> zip, dir |-> [exists |-> TRUE, files |-> <<>>],
                           pc |-> "open", i |-> 0, emitted |-> <<>>])
    /\ TRUE
    /\ UNCHANGED <<resultado_file, clock, evaluated_files, erros_atuais,
                   ultimo_estado_avaliacao, avaliacao_dialog, last_save, main_queue>>
    /\ UNCHANGED peer

\* the `arquivo` values of the entries lst[k..], added to the set acc one by one
RECURSIVE AddArquivos(_, _, _)
AddArquivos(lst, k, acc) ==
    IF k > Len(lst) THEN acc
    ELSE AddArquivos(lst, k + 1, acc \cup {lst[k].arquivo})

\* mutant: the entries of every archive are added
load_progress_data_all_archives(data, zip) ==
    UNION {AddArquivos(data[z], 1, {}) : z \in DOMAIN data}

\* MainWindow.load_progress_data: the new evaluated_files, given the loaded ledger
load_progress_data(data, zip) ==
    IF zip \in DOMAIN data THEN AddArquivos(data[zip], 1, {}) ELSE {}

\* the first loop of on_zip_finished: the first index whose filename is not evaluated, else 0
RECURSIVE FirstUnevaluated(_, _, _)
FirstUnevaluated(media, i, evaluated) ==
    IF i >= Len(media) THEN 0
    ELSE IF media[i + 1].filename \notin evaluated THEN i
    ELSE FirstUnevaluated(media, i + 1, evaluated)

\* MainWindow.on_zip_finished for the signal at the head of the queue;
\* io = FALSE: the read of resultado.json fails
on_zip_finished(io) ==
    /\ main_queue # <<>>
    /\ Head(main_queue).sig = "finished"
    /\ main_queue' = Tail(main_queue)
    /\ LET media == Head(main_queue).media IN
       IF media = <<>>
       THEN /\ TRUE   \* QMessageBox "Aviso"
            /\ UNCHANGED <<media_files, evaluated_files, current_media_index>>
       ELSE LET data == load_resultado_json(resultado_file, io).value
                ev == load_progress_data(data, current_zip_name)
                first == FirstUnevaluated(media, 0, ev)
            IN /\ media_files' = media
               /\ evaluated_files' = ev
               /\ current_media_index' =
                     IF Cardinality(ev) = Len(media) /\ Len(media) > 0 THEN 0 ELSE first
               /\ TRUE   \* QMessageBox "ZIP Carregado"
    /\ UNCHANGED <<resultado_file, clock, current_zip_name, erros_atuais,
                   ultimo_estado_avaliacao, avaliacao_dialog, last_save, threads>>
    /\ UNCHANGED peer

\* mutant: the jump goes to the next item, evaluated or not
jump_to_next_unevaluated_next_item(media, index, evaluated) ==
    IF index + 1 < Len(media) THEN [index |-> index + 1, msg |-> <<>>]
    ELSE [index |-> index, msg |-> <<"Concluído">>]

\* mutant: the slot also removes the scratch directory
on_zip_error_removes_dir ==
    /\ main_queue # <<>>
    /\ Head(main_queue).sig = "error"
    /\ main_queue' = Tail(main_queue)
    /\ threads' = Rmtree(threads)
    /\ UNCHANGED <<resultado_file, clock, media_files, current_media_index, current_zip_name,
                   evaluated_files, erros_atuais, ultimo_estado_avaliacao, avaliacao_dialog,
                   last_save>>
    /\ UNCHANGED peer

\* the slot connected to ZipLoaderThread.error: QMessageBox.critical only
on_zip_error ==
    /\ main_queue # <<>>
    /\ Head(main_queue).sig = "error"
    /\ main_queue' = Tail(main_queue)
    /\ TRUE   \* QMessageBox "Erro"
    /\ UNCHANGED <<resultado_file, clock, media_files, current_media_index, current_zip_name,
                   evaluated_files, erros_atuais, ultimo_estado_avaliacao, avaliacao_dialog,
                   last_save, threads>>
    /\ UNCHANGED peer

(***************************************************************************)
(* MainWindow: navigation                                                  *)
(***************************************************************************)
\* mutant: the index is advanced without the test against the last item
next_image_no_upper_test ==
    /\ media_files # <<>>
    /\ current_media_index' = current_media_index + 1
    /\ UNCHANGED <<resultado_file, clock, media_files, current_zip_name, evaluated_files,
                   erros_atuais, ultimo_estado_avaliacao, avaliacao_dialog, last_save,
                   threads, main_queue>>
    /\ UNCHANGED peer

\* MainWindow.next_image
next_image ==
    /\ media_files # <<>>
    /\ current_media_index < Len(media_files) - 1
    /\ current_media_index' = current_media_index + 1
    /\ UNCHANGED <<resultado_file, clock, media_files, current_zip_name, evaluated_files,
                   erros_atuais, ultimo_estado_avaliacao, avaliacao_dialog, last_save,
                   threads, main_queue>>
    /\ UNCHANGED peer

\* MainWindow.prev_image
prev_image ==
    /\ media_files # <<>>
    /\ current_media_index > 0
    /\ current_media_index' = current_media_index - 1
    /\ UNCHANGED <<resultado_file, clock, media_files, current_zip_name, evaluated_files,
                   erros_atuais, ultimo_estado_avaliacao, avaliacao_dialog, last_save,
                   threads, main_queue>>
    /\ UNCHANGED peer

\* the loop of jump_to_next_unevaluated from index i: the index found, or -1
RECURSIVE NextUnevaluated(_, _, _)
NextUnevaluated(media, i, evaluated) ==
    IF i >= Len(media) THEN -1
    ELSE IF media[i + 1].filename \notin evaluated THEN i
    ELSE NextUnevaluated(media, i + 1, evaluated)

\* MainWindow.jump_to_next_unevaluated: [index, msg]
jump_to_next_unevaluated(media, index, evaluated) ==
    LET j == NextUnevaluated(media, index + 1, evaluated) IN
    IF j >= 0 THEN [index |-> j, msg |-> <<>>]
    ELSE [index |-> index, msg |-> <<"Concluído">>]

(***************************************************************************)
(* MainWindow and AvaliacaoDialog: selecting and rating errors             *)
(***************************************************************************)
\* the list open_erro_selector builds from the accepted selection
RECURSIVE NewErros(_)
NewErros(sel) ==
    IF sel = <<>> THEN <<>>
    ELSE <<[nome |-> Head(sel)[1], descricao |-> Head(sel)[2], avaliacao |-> 0]>>
         \o NewErros(Tail(sel))

\* MainWindow.open_erro_selector, the dialog accepted with the list sel (no "SPFC" name in it)
open_erro_selector(sel) ==
    /\ IF ~verificar_zip_carregado
       THEN /\ TRUE   \* QMessageBox "Ação Bloqueada"
            /\ erros_atuais' = erros_atuais
       ELSE /\ TRUE
            /\ erros_atuais' = NewErros(sel)
    /\ UNCHANGED <<resultado_file, clock, media_files, current_media_index, current_zip_name,
                   evaluated_files, ultimo_estado_avaliacao, avaliacao_dialog, last_save,
                   threads, main_queue>>
    /\ UNCHANGED peer

\* a dict key -> value with one key set (d[k] = v of Python)
SetKey(d, k, v) == (k :> v) @@ d

\* the loop of AvaliacaoDialog.restaurar_avaliacoes over the saved keys in ks
RECURSIVE RestoreKeys(_, _, _, _)
RestoreKeys(avaliacoes, salvas, ks, n) ==
    IF ks = {} THEN avaliacoes
    ELSE LET idx == CHOOSE x \in ks : TRUE
             a1 == IF idx < n THEN SetKey(avaliacoes, idx, salvas[idx]) ELSE avaliacoes
         IN RestoreKeys(a1, salvas, ks \ {idx}, n)

\* AvaliacaoDialog.restaurar_avaliacoes on a dialog with n errors and no rating yet
restaurar_avaliacoes(salvas, n) == RestoreKeys(EmptyDict, salvas, DOMAIN salvas, n)

\* self.ultimo_estado_avaliacao = None
UltimoNone == [none |-> TRUE, alias |-> FALSE, d |-> EmptyDict]

\* MainWindow.salvar_estado_avaliacao: the attribute becomes the dialog's own dict
salvar_estado_avaliacao(dlg) == [none |-> FALSE, alias |-> TRUE, d |-> dlg.avaliacoes]

\* the (nome, descricao) of the errors of a list, in order: what the rows
\* of AvaliacaoDialog.erros_selecionados show
ErroKeys(erros) == [k \in 1 .. Len(erros) |-> <<erros[k].nome, erros[k].descricao>>]

\* MainWindow.abrir_janela_avaliacao
abrir_janela_avaliacao ==
    /\ IF ~verificar_zip_carregado
       THEN /\ TRUE   \* QMessageBox "Ação Bloqueada"
            /\ UNCHANGED <<avaliacao_dialog, ultimo_estado_avaliacao>>
       ELSE IF erros_atuais = <<>>
       THEN /\ TRUE   \* QMessageBox "Atenção"
            /\ UNCHANGED <<avaliacao_dialog, ultimo_estado_avaliacao>>
       ELSE IF avaliacao_dialog.exists /\ avaliacao_dialog.visible
       THEN /\ TRUE   \* raise_ and activateWindow only
            /\ UNCHANGED <<avaliacao_dialog, ultimo_estado_avaliacao>>
       ELSE LET u == ultimo_estado_avaliacao
                n == Len(erros_atuais)
                restored == IF ~u.none /\ DOMAIN u.d # {}
                            THEN restaurar_avaliacoes(u.d, n) ELSE EmptyDict
            IN /\ avaliacao_dialog' = [exists |-> TRUE, visible |-> TRUE, n |-> n,
                                       erros |-> ErroKeys(erros_atuais),
                                       avaliacoes |-> restored]
               \* the attribute keeps the dict of the dialog that is replaced
               /\ ultimo_estado_avaliacao' = [u EXCEPT !.alias = FALSE]
               /\ TRUE
    /\ UNCHANGED <<resultado_file, clock, media_files, current_media_index, current_zip_name,
                   evaluated_files, erros_atuais, last_save, threads, main_queue>>
    /\ UNCHANGED peer

\* mutant: the stored rating is off by one upwards
on_estrela_click_plus_two(erro_index, estrela_index) ==
    /\ avaliacao_dialog.exists /\ avaliacao_dialog.visible
    /\ erro_index \in Range(avaliacao_dialog.n)
    /\ LET a1 == SetKey(avaliacao_dialog.avaliacoes, erro_index, estrela_index + 2) IN
       /\ avaliacao_dialog' = [avaliacao_dialog EXCEPT !.avaliacoes = a1]
       /\ ultimo_estado_avaliacao' =
             IF ultimo_estado_avaliacao.alias
             THEN [ultimo_estado_avaliacao EXCEPT !.d = a1] ELSE ultimo_estado_avaliacao
    /\ UNCHANGED <<resultado_file, clock, media_files, current_media_index, current_zip_name,
                   evaluated_files, erros_atuais, last_save, threads, main_queue>>
    /\ UNCHANGED peer

\* AvaliacaoDialog.on_estrela_click: a star of a visible dialog is clicked
on_estrela_click(erro_index, estrela_index) ==
    /\ avaliacao_dialog.exists /\ avaliacao_dialog.visible
    /\ erro_index \in Range(avaliacao_dialog.n)
    /\ LET a1 == SetKey(avaliacao_dialog.avaliacoes, erro_index, estrela_index + 1) IN
       /\ avaliacao_dialog' = [avaliacao_dialog EXCEPT !.avaliacoes = a1]
       /\ ultimo_estado_avaliacao' =
             IF ultimo_estado_avaliacao.alias
             THEN [ultimo_estado_avaliacao EXCEPT !.d = a1] ELSE ultimo_estado_avaliacao
    /\ UNCHANGED <<resultado_file, clock, media_files, current_media_index, current_zip_name,
                   evaluated_files, erros_atuais, last_save, threads, main_queue>>
    /\ UNCHANGED peer

\* AvaliacaoDialog.todas_avaliacoes_preenchidas
todas_avaliacoes_preenchidas(dlg) ==
    /\ Cardinality(DOMAIN dlg.avaliacoes) = dlg.n
    /\ \A k \in DOMAIN dlg.avaliacoes : dlg.avaliacoes[k] > 0

\* the loop of processar_avaliacoes: erro['avaliacao'] = notas[i] for every i in notas
ApplyNotas(erros, notas) ==
    [k \in 1 .. Len(erros) |->
        IF (k - 1) \in DOMAIN notas
        THEN [erros[k] EXCEPT !.avaliacao = notas[k - 1]] ELSE erros[k]]

\* the button "Confirmar Avaliações": QDialog.accept hides the dialog and emits
\* accepted (processar_avaliacoes), then finished (salvar_estado_avaliacao)
avaliacao_accept ==
    /\ avaliacao_dialog.exists /\ avaliacao_dialog.visible
    /\ IF ~todas_avaliacoes_preenchidas(avaliacao_dialog)
       THEN /\ TRUE   \* QMessageBox "Incompleto"
            /\ erros_atuais' = erros_atuais
            \* QTimer.singleShot(100, dialog.show): the dialog is back on screen
            /\ avaliacao_dialog' = avaliacao_dialog
       ELSE /\ TRUE
            /\ erros_atuais' = ApplyNotas(erros_atuais, avaliacao_dialog.avaliacoes)
            /\ avaliacao_dialog' = [avaliacao_dialog EXCEPT !.visible = FALSE]
    /\ ultimo_estado_avaliacao' = salvar_estado_avaliacao(avaliacao_dialog)
    /\ UNCHANGED <<resultado_file, clock, media_files, current_media_index, current_zip_name,
                   evaluated_files, last_save, threads, main_queue>>
    /\ UNCHANGED peer

\* the button "Cancelar" or the window's close button: QDialog.reject hides the
\* dialog and emits finished (salvar_estado_avaliacao)
avaliacao_reject ==
    /\ avaliacao_dialog.exists /\ avaliacao_dialog.visible
    /\ avaliacao_dialog' = [avaliacao_dialog EXCEPT !.visible = FALSE]
    /\ ultimo_estado_avaliacao' = salvar_estado_avaliacao(avaliacao_dialog)
    /\ TRUE
    /\ UNCHANGED <<resultado_file, clock, media_files, current_media_index, current_zip_name,
                   evaluated_files, erros_atuais, last_save, threads, main_queue>>
    /\ UNCHANGED peer

(***************************************************************************)
(* MainWindow.salvar_anotacao                                              *)
(***************************************************************************)
\* mutant: the search loop never finds the record
FindEntrada_never_found(lst, k, arquivo) == 0

\* the search loop for entrada_existente: its position in the list, 0 when not found
RECURSIVE FindEntrada(_, _, _)
FindEntrada(lst, k, arquivo) ==
    IF k > Len(lst) THEN 0
    ELSE IF lst[k].arquivo = arquivo THEN k
    ELSE FindEntrada(lst, k + 1, arquivo)

\* mutant: two entries are duplicates only when their ratings agree too
duplicado_same_rating(erros, novo_erro) ==
    \E k \in 1 .. Len(erros) :
        /\ erros[k].nome = novo_erro.nome
        /\ erros[k].descricao = novo_erro.descricao
        /\ erros[k].avaliacao = novo_erro.avaliacao

\* duplicado = any(e['nome'] == ... and e['descricao'] == ... for e in entrada_existente['erros'])
duplicado(erros, novo_erro) ==
    \E k \in 1 .. Len(erros) :
        erros[k].nome = novo_erro.nome /\ erros[k].descricao = novo_erro.descricao

\* mutant: every pending error is appended, without the duplicado test
MergeErros_always_append(erros, pendentes, k, ts) ==
    erros \o [j \in 1 .. (Len(pendentes) - k + 1) |->
                [nome |-> pendentes[j + k - 1].nome,
                 descricao |-> pendentes[j + k - 1].descricao,
                 avaliacao |-> pendentes[j + k - 1].avaliacao, timestamp |-> ts]]

\* mutant: a pending error that is a duplicate replaces the entry of the record
RECURSIVE MergeErros_overwrite(_, _, _, _)
MergeErros_overwrite(erros, pendentes, k, ts) ==
    IF k > Len(pendentes) THEN erros
    ELSE LET novo_erro == [nome |-> pendentes[k].nome, descricao |-> pendentes[k].descricao,
                           avaliacao |-> pendentes[k].avaliacao, timestamp |-> ts]
             replaced == [j \in 1 .. Len(erros) |->
                             IF erros[j].nome = novo_erro.nome
                                /\ erros[j].descricao = novo_erro.descricao
                             THEN novo_erro ELSE erros[j]]
         IN MergeErros_overwrite(IF replaced # erros THEN replaced
                                 ELSE IF \E j \in 1 .. Len(erros) : erros[j] = novo_erro
                                 THEN erros ELSE Append(erros, novo_erro),
                                 pendentes, k + 1, ts)

\* the loop over self.erros_atuais from position k on: the new entrada_existente['erros']
RECURSIVE MergeErros(_, _, _, _)
MergeErros(erros, pendentes, k, ts) ==
    IF k > Len(pendentes) THEN erros
    ELSE LET novo_erro == [nome |-> pendentes[k].nome, descricao |-> pendentes[k].descricao,
                           avaliacao |-> pendentes[k].avaliacao, timestamp |-> ts]
         IN MergeErros(IF duplicado(erros, novo_erro) THEN erros ELSE Append(erros, novo_erro),
                       pendentes, k + 1, ts)

\* mutant: the record is built on an empty ledger, not on the one loaded
upsert_ignores_loaded(data, zip, item, pendentes, ts) ==
    (zip :> <<[arquivo |-> item.filename, data |-> item.data, id |-> item.id,
               dedo |-> item.dedo, erros |-> MergeErros(<<>>, pendentes, 1, ts)]>>)

\* lines 1861-1897: resultado_data after the record of `item` was found or
\* added and the pending errors were merged into it
upsert(data, zip, item, pendentes, ts) ==
    LET d1 == IF zip \in DOMAIN data THEN data ELSE (zip :> <<>>) @@ data
        lst == d1[zip]
        pos == FindEntrada(lst, 1, item.filename)
        lst1 == IF pos = 0
                THEN Append(lst, [arquivo |-> item.filename, data |-> item.data,
                                  id |-> item.id, dedo |-> item.dedo, erros |-> <<>>])
                ELSE lst
        p == IF pos = 0 THEN Len(lst1) ELSE pos
    IN [d1 EXCEPT ![zip] = [lst1 EXCEPT ![p].erros = MergeErros(@, pendentes, 1, ts)]]

\* some pending error has the (nome, descricao) of an entry of the record of
\* `arquivo` that carries another rating: the loop skipped it and kept the entry
RatingKept(data, zip, arquivo, pendentes) ==
    \E a \in 1 .. Len(data[zip]) :
        /\ data[zip][a].arquivo = arquivo
        /\ \E k \in 1 .. Len(pendentes), j \in 1 .. Len(data[zip][a].erros) :
              /\ data[zip][a].erros[j].nome = pendentes[k].nome
              /\ data[zip][a].erros[j].descricao = pendentes[k].descricao
              /\ data[zip][a].erros[j].avaliacao # pendentes[k].avaliacao

\* mutant: the test for unrated errors is left out
TodosAvaliados_not_tested(erros) == TRUE

\* erros_sem_avaliacao is empty
TodosAvaliados(erros) == \A k \in 1 .. Len(erros) : erros[k].avaliacao # 0

\* mutant: the form is cleared before the write is known to have succeeded
ErrosAfterSave_always_cleared(ret, erros) == <<>>

\* self.erros_atuais after the if/else on save_resultado_json's result:
\* limpar_formulario runs in the success branch only
ErrosAfterSave(ret, erros) == IF ret THEN <<>> ELSE erros

\* MainWindow.salvar_anotacao; io = FALSE: the read of resultado.json fails,
\* w: the outcome of the write
salvar_anotacao(io, w) ==
    /\ IF ~verificar_zip_carregado
       THEN /\ TRUE   \* QMessageBox "Ação Bloqueada"
            /\ UNCHANGED <<resultado_file, clock, media_files, current_media_index,
                           current_zip_name, evaluated_files, erros_atuais,
                           ultimo_estado_avaliacao, avaliacao_dialog, last_save, threads,
                           main_queue>>
       ELSE IF current_zip_name = NoZip
       THEN /\ TRUE   \* QMessageBox "Erro"
            /\ UNCHANGED <<resultado_file, clock, media_files, current_media_index,
                           current_zip_name, evaluated_files, erros_atuais,
                           ultimo_estado_avaliacao, avaliacao_dialog, last_save, threads,
                           main_queue>>
       ELSE IF current_media_index >= Len(media_files)
       THEN /\ TRUE   \* QMessageBox "Erro"
            /\ UNCHANGED <<resultado_file, clock, media_files, current_media_index,
                           current_zip_name, evaluated_files, erros_atuais,
                           ultimo_estado_avaliacao, avaliacao_dialog, last_save, threads,
                           main_queue>>
       ELSE IF erros_atuais = <<>>
       THEN /\ TRUE   \* QMessageBox "Atenção"
            /\ UNCHANGED <<resultado_file, clock, media_files, current_media_index,
                           current_zip_name, evaluated_files, erros_atuais,
                           ultimo_estado_avaliacao, avaliacao_dialog, last_save, threads,
                           main_queue>>
       ELSE IF ~TodosAvaliados(erros_atuais)
       THEN /\ TRUE   \* QMessageBox "Incompleto"
            /\ UNCHANGED <<resultado_file, clock, media_files, current_media_index,
                           current_zip_name, evaluated_files, erros_atuais,
                           ultimo_estado_avaliacao, avaliacao_dialog, last_save, threads,
                           main_queue>>
       ELSE LET item == media_files[current_media_index + 1]
                loaded == load_resultado_json(resultado_file, io).value
                resultado_data == upsert(loaded, current_zip_name, item, erros_atuais, clock)
                res == save_resultado_json(resultado_file, resultado_data, w)
                ev == evaluated_files \cup {item.filename}
                jump == jump_to_next_unevaluated(media_files, current_media_index, ev)
                open == avaliacao_dialog.exists /\ avaliacao_dialog.visible
            IN /\ clock' = clock + 1
               /\ resultado_file' = res.file
               /\ last_save' = [ret |-> res.ret,
                                msg |-> IF res.ret THEN "Sucesso" ELSE "Erro Crítico",
                                rating_kept |-> RatingKept(resultado_data, current_zip_name,
                                                           item.filename, erros_atuais),
                                after_failure |-> last_save.msg = "Erro Crítico"]
               /\ erros_atuais' = ErrosAfterSave(res.ret, erros_atuais)
               /\ IF res.ret
                  THEN /\ evaluated_files' = ev
                       \* avaliacao_dialog.close(): a visible dialog rejects and emits finished
                       /\ ultimo_estado_avaliacao' =
                             IF open THEN salvar_estado_avaliacao(avaliacao_dialog) ELSE UltimoNone
                       /\ avaliacao_dialog' = [avaliacao_dialog EXCEPT !.visible = FALSE]
                       /\ current_media_index' = jump.index
                       /\ TRUE   \* QMessageBox "Sucesso"
                  ELSE /\ TRUE   \* QMessageBox "Erro Crítico"
                       /\ UNCHANGED <<evaluated_files, ultimo_estado_avaliacao,
                                      avaliacao_dialog, current_media_index>>
               /\ UNCHANGED <<media_files, current_zip_name, threads, main_queue>>
    /\ UNCHANGED peer

(***************************************************************************)
(* The program                                                             *)
(***************************************************************************)
\* the second instance is not inside salvar_anotacao
PeerIdle == [pc |-> "idle", loaded |-> EmptyDict, zip |-> NoZip, item |-> <<>>, pendentes |-> <<>>]

\* the state after MainWindow.__init__, with no resultado.json yet
Init ==
    /\ resultado_file = FileAbsent
    /\ clock = 0
    /\ media_files = <<>>
    /\ current_media_index = 0
    /\ current_zip_name = NoZip
    /\ evaluated_files = {}
    /\ erros_atuais = <<>>
    /\ ultimo_estado_avaliacao = UltimoNone
    /\ avaliacao_dialog = [exists |-> FALSE, visible |-> FALSE, n |-> 0, erros |-> <<>>,
                           avaliacoes |-> EmptyDict]
    /\ last_save = [ret |-> FALSE, msg |-> "", rating_kept |-> FALSE, after_failure |-> FALSE]
    /\ threads = <<>>
    /\ main_queue = <<>>
    /\ peer = PeerIdle

\* every started thread has finished and its signal has been handled
LoaderIdle ==
    /\ main_queue = <<>>
    /\ \A k \in 1 .. Len(threads) : threads[k].pc = "done"

\* the steps of the loader threads and the slots their signals are connected to;
\* io = FALSE: the read of resultado.json fails
LoaderStep(io) ==
    \/ \E k \in 1 .. Len(threads), ok \in BOOLEAN : ThreadOpen(k, ok)
    \/ \E k \in 1 .. Len(threads), ok \in BOOLEAN : ThreadExtract(k, ok)
    \/ \E k \in 1 .. Len(threads) : ThreadOrganize(k)
    \/ on_zip_finished(io)
    \/ on_zip_error

\* the rating dialog is on screen
DialogOpen == avaliacao_dialog.exists /\ avaliacao_dialog.visible

\* no error is picked and no rating dialog is on screen
NothingPending == erros_atuais = <<>> /\ ~DialogOpen

\* a user who works in order: waits while an archive is loading, picks the
\* errors while no rating dialog is open, opens the dialog while ratings are
\* missing, confirms once every error is rated
OrderlyUserStep ==
    \/ LoaderIdle /\ next_image
    \/ LoaderIdle /\ prev_image
    \/ \E sel \in Selections : LoaderIdle /\ ~DialogOpen /\ open_erro_selector(sel)
    \/ LoaderIdle /\ ~TodosAvaliados(erros_atuais) /\ abrir_janela_avaliacao
    \/ \E i \in Range(avaliacao_dialog.n), s \in ClickStars :
          LoaderIdle /\ on_estrela_click(i, s)
    \/ LoaderIdle /\ todas_avaliacoes_preenchidas(avaliacao_dialog) /\ avaliacao_accept

\* a session of an orderly user who picks the next archive once the previous
\* load has ended; the file system performs every read and write of resultado.json
Next ==
    \/ \E zip \in Archives : LoaderIdle /\ NothingPending /\ load_zip_file(zip)
    \/ LoaderStep(TRUE)
    \/ OrderlyUserStep
    \/ LoaderIdle /\ clock < MaxClock /\ salvar_anotacao(TRUE, "ok")

Spec == Init /\ [][Next]_vars

\* the archive of the sessions that explore file system failures or every
\* order of the user's steps
ArchivesIO == {"C_2024 05.zip"}

\* the same session on one archive when a read of resultado.json may fail and a
\* write may fail
NextIO ==
    \/ \E zip \in ArchivesIO : LoaderIdle /\ NothingPending /\ load_zip_file(zip)
    \/ \E io \in BOOLEAN : LoaderStep(io)
    \/ OrderlyUserStep
    \/ \E io \in BOOLEAN, w \in WriteOutcomes :
          LoaderIdle /\ clock < MaxClock /\ salvar_anotacao(io, w)

SpecIO == Init /\ [][NextIO]_vars

\* a user who presses any button at any time once the archive is loaded: picks
\* errors again while the rating dialog is open, opens the dialog again (the
\* ratings of the dialog closed last are restored), confirms an incomplete
\* rating, cancels
FreeUserStep ==
    \/ LoaderIdle /\ next_image
    \/ LoaderIdle /\ prev_image
    \/ \E sel \in Selections : LoaderIdle /\ open_erro_selector(sel)
    \/ LoaderIdle /\ abrir_janela_avaliacao
    \/ \E i \in Range(avaliacao_dialog.n), s \in ClickStars :
          LoaderIdle /\ on_estrela_click(i, s)
    \/ LoaderIdle /\ avaliacao_accept
    \/ LoaderIdle /\ avaliacao_reject

\* a session of such a user on one archive, loaded while nothing is pending
NextRating ==
    \/ \E zip \in ArchivesIO : LoaderIdle /\ NothingPending /\ load_zip_file(zip)
    \/ LoaderStep(TRUE)
    \/ FreeUserStep
    \/ LoaderIdle /\ clock < MaxClock /\ salvar_anotacao(TRUE, "ok")

SpecRating == Init /\ [][NextRating]_vars

\* worker threads that run or whose terminal signal waits in the queue, at
\* the same time, in the sessions below
MaxWorkers == 2

\* the threads that have not emitted their terminal event
Running == SelectSeq(threads, IsRunning)

\* a user who presses "Carregar ZIP" whenever the button is enabled: the
\* progress dialog is opened with show(), the main window stays active
\* while a thread runs
NextReload ==
    \/ \E zip \in Archives :
          Len(Running) + Len(main_queue) < MaxWorkers /\ load_zip_file(zip)
    \/ LoaderStep(TRUE)

SpecReload == Init /\ [][NextReload]_vars

\* an archive with images and one that holds a text file only
ArchivesEmpty == {"C_2024 05.zip", "E.zip"}

\* the session of the orderly user on these two archives
NextEmpty ==
    \/ \E zip \in ArchivesEmpty : LoaderIdle /\ NothingPending /\ load_zip_file(zip)
    \/ LoaderStep(TRUE)
    \/ OrderlyUserStep
    \/ LoaderIdle /\ clock < MaxClock /\ salvar_anotacao(TRUE, "ok")

SpecEmpty == Init /\ [][NextEmpty]_vars

\* an archive with the same file name in two folders
ArchivesDup == {"D.zip"}

\* the session of the orderly user on this archive
NextDup ==
    \/ \E zip \in ArchivesDup : LoaderIdle /\ NothingPending /\ load_zip_file(zip)
    \/ LoaderStep(TRUE)
    \/ OrderlyUserStep
    \/ LoaderIdle /\ clock < MaxClock /\ salvar_anotacao(TRUE, "ok")

SpecDup == Init /\ [][NextDup]_vars

\* two archive files with the same base name and different members
ArchiveVersions == {"B.zip", "v2/B.zip"}

\* the session of the orderly user on these two archive files
NextVersions ==
    \/ \E zip \in ArchiveVersions : LoaderIdle /\ NothingPending /\ load_zip_file(zip)
    \/ LoaderStep(TRUE)
    \/ OrderlyUserStep
    \/ LoaderIdle /\ clock < MaxClock /\ salvar_anotacao(TRUE, "ok")

SpecVersions == Init /\ [][NextVersions]_vars

(***************************************************************************)
(* Two instances of the program on one resultado.json                      *)
(***************************************************************************)
\* the pending errors of the second instance when it saves: one rated error
PeerErros == << [nome |-> "E1", descricao |-> "d2", avaliacao |-> NumStars] >>

\* the second instance, with the archive zip loaded and the item shown rated,
\* runs salvar_anotacao up to line 1859: load_resultado_json
PeerLoad(zip, k) ==
    /\ peer.pc = "idle"
    /\ clock < MaxClock
    /\ k \in 1 .. Len(organize_files(zip, ZipMembers(zip)))
    /\ peer' = [pc |-> "loaded",
                loaded |-> load_resultado_json(resultado_file, TRUE).value,
                zip |-> zip,
                item |-> <<organize_files(zip, ZipMembers(zip))[k]>>,
                pendentes |-> PeerErros]
    /\ UNCHANGED <<resultado_file, clock, media_files, current_media_index, current_zip_name,
                   evaluated_files, erros_atuais, ultimo_estado_avaliacao, avaliacao_dialog,
                   last_save, threads, main_queue>>

\* the second instance runs lines 1861-1899: the upsert on what it loaded and
\* save_resultado_json
PeerWrite ==
    /\ peer.pc = "loaded"
    /\ LET data == upsert(peer.loaded, peer.zip, peer.item[1], peer.pendentes, clock)
           res == save_resultado_json(resultado_file, data, "ok")
       IN resultado_file' = res.file
    /\ clock' = clock + 1
    /\ peer' = PeerIdle
    /\ UNCHANGED <<media_files, current_media_index, current_zip_name, evaluated_files,
                   erros_atuais, ultimo_estado_avaliacao, avaliacao_dialog, last_save,
                   threads, main_queue>>

\* the orderly session on one archive while a second instance saves
\* evaluations of the same archive; the reads of the two instances commute,
\* so the interleavings of two saves are those of a save of this instance
\* with the load and the write of the other. The other instance evaluates the
\* first item of the catalog, this one evaluates any item
NextTwo ==
    \/ \E zip \in ArchivesIO : LoaderIdle /\ NothingPending /\ load_zip_file(zip)
    \/ LoaderStep(TRUE)
    \/ OrderlyUserStep
    \/ LoaderIdle /\ clock < MaxClock /\ salvar_anotacao(TRUE, "ok")
    \/ \E zip \in ArchivesIO : PeerLoad(zip, 1)
    \/ PeerWrite

SpecTwo == Init /\ [][NextTwo]_vars

(***************************************************************************)
(* organize_files on the files of any extracted archive                    *)
(***************************************************************************)
\* files under temp_dir that organize_files walks
MaxFiles == 2

\* '_'-separated tokens in the name of a file
MaxTokens == 3

\* files an extracted archive may hold: at every depth from 1 to 4 path
\* segments, with extensions in either case and one unsupported, two of them
\* (in 15/S1 and a/15/S1) with the same day, id and file name
CatalogFiles ==
    { [dirs |-> <<>>,                file |-> [stem |-> <<"indic", "d">>, ext |-> "jpg"]],
      [dirs |-> <<"S1">>,            file |-> [stem |-> <<"medio", "1e">>, ext |-> "PNG"]],
      [dirs |-> <<"S1">>,            file |-> [stem |-> <<"indic", "d">>, ext |-> "JPG"]],
      [dirs |-> <<"15", "S1">>,      file |-> [stem |-> <<"indic", "d">>, ext |-> "jpg"]],
      [dirs |-> <<"15", "S1">>,      file |-> [stem |-> <<"notes">>, ext |-> "txt"]],
      [dirs |-> <<"a", "15", "S1">>, file |-> [stem |-> <<"indic", "d">>, ext |-> "jpg"]],
      [dirs |-> <<"1-", "S1">>,      file |-> [stem |-> <<"medio", "1e">>, ext |-> "PNG"]],
      [dirs |-> <<"1", "S1">>,       file |-> [stem |-> <<"medio", "1e">>, ext |-> "PNG"]] }

\* tokens of a file name: finger tokens, side tokens, a digit with a side,
\* upper-case variants, and a token of neither category
NameTokens == {"indic", "medio", "Indic", "d", "e", "1e", "2D", "x"}

\* the sequences over S of length lo to hi
SeqsOf(S, lo, hi) == UNION {[1 .. n -> S] : n \in lo .. hi}

\* the directory p is d or an ancestor of d
DirPrefix(p, d) == Len(p) <= Len(d) /\ SubSeq(d, 1, Len(p)) = p

\* os.walk can enumerate the files in this order: no path twice, the files
\* of a directory before those of its subdirectories, every subtree in one run
WalkOrder(found) ==
    /\ \A i, j \in 1 .. Len(found) : found[i] = found[j] => i = j
    /\ \A i, j \in 1 .. Len(found) :
          i < j => ~(DirPrefix(found[j].dirs, found[i].dirs)
                     /\ found[j].dirs # found[i].dirs)
    /\ \A i, j, k \in 1 .. Len(found) :
          (i < j /\ j < k) =>
              \A n \in 1 .. Len(found[i].dirs) :
                  DirPrefix(SubSeq(found[i].dirs, 1, n), found[k].dirs)
                  => DirPrefix(SubSeq(found[i].dirs, 1, n), found[j].dirs)

\* the lists of files organize_files is run on: the walks of up to MaxFiles
\* of the files above, and one file at the top whose name has up to
\* MaxTokens tokens
WalkInputs ==
    {found \in SeqsOf(CatalogFiles, 0, MaxFiles) : WalkOrder(found)}
    \cup {<<[dirs |-> <<>>, file |-> [stem |-> st, ext |-> "jpg"]]>> :
             st \in SeqsOf(NameTokens, 1, MaxTokens)}

\* the signals run has emitted when the with block ends after n members
ExtractionEvents(n) == <<Progress(0)>> \o [j \in 1 .. n |-> Progress(percent(j, n))]

\* the session after load_zip_file(zip) when the thread has extracted an
\* archive holding the files `found`
InitCatalog ==
    \E zip \in Archives, found \in WalkInputs :
        /\ resultado_file = FileAbsent
        /\ clock = 0
        /\ media_files = <<>>
        /\ current_media_index = 0
        /\ current_zip_name = zip
        /\ evaluated_files = {}
        /\ erros_atuais = <<>>
        /\ ultimo_estado_avaliacao = UltimoNone
        /\ avaliacao_dialog = [exists |-> FALSE, visible |-> FALSE, n |-> 0, erros |-> <<>>,
                               avaliacoes |-> EmptyDict]
        /\ last_save = [ret |-> FALSE, msg |-> "", rating_kept |-> FALSE,
                        after_failure |-> FALSE]
        /\ threads = <<[zip |-> zip, dir |-> [exists |-> TRUE, files |-> found],
                        pc |-> "organize", i |-> Len(found),
                        emitted |-> ExtractionEvents(Len(found))]>>
        /\ main_queue = <<>>
        /\ peer = PeerIdle

\* the thread builds the catalog and the main window receives it
NextCatalog ==
    \/ \E k \in 1 .. Len(threads) : ThreadOrganize(k)
    \/ on_zip_finished(TRUE)

SpecCatalog == InitCatalog /\ [][NextCatalog]_vars

(***************************************************************************)
(* Properties                                                              *)
(***************************************************************************)
\* the ledger persisted in resultado.json; no record when the file is absent
\* or holds no complete document
Ledger == IF resultado_file.kind = "ok" THEN resultado_file.data ELSE EmptyDict

\* the records a ledger holds under the archive name zip
Records(data, zip) == IF zip \in DOMAIN data THEN data[zip] ELSE <<>>

\* the `arquivo` values of the records a ledger holds under the archive name zip
RecordedFiles(data, zip) ==
    {Records(data, zip)[k].arquivo : k \in 1 .. Len(Records(data, zip))}

\* the (nome, descricao) pairs of a list of errors
Pairs(erros) == {<<erros[k].nome, erros[k].descricao>> : k \in 1 .. Len(erros)}

\* the timestamps of a list of error entries
Stamps(erros) == {erros[k].timestamp : k \in 1 .. Len(erros)}

\* s is a prefix of t
IsPrefix(s, t) == Len(s) <= Len(t) /\ SubSeq(t, 1, Len(s)) = s

\* salvar_anotacao passes its guards in this state
SaveReady ==
    /\ verificar_zip_carregado
    /\ current_zip_name # NoZip
    /\ current_media_index < Len(media_files)
    /\ erros_atuais # <<>>
    /\ TodosAvaliados(erros_atuais)

\* this step is a run of salvar_anotacao that got past its guards
SaveStep == clock' = clock + 1

\* this step is on_zip_finished with a catalog that is not empty, the run
\* that calls load_progress_data
ProgressLoadStep ==
    /\ main_queue # <<>>
    /\ Head(main_queue).sig = "finished"
    /\ Head(main_queue).media # <<>>
    /\ main_queue' = Tail(main_queue)

\* the record of the file shown, in the ledger data
RecordOfCurrent(data) ==
    LET lst == Records(data, current_zip_name)
        pos == FindEntrada(lst, 1, media_files[current_media_index + 1].filename)
    IN IF pos = 0 THEN <<>> ELSE <<lst[pos]>>

\* C1: after any sequence of successful saves, the ledger holds at most one
\* record per (archive name, file name): a save for a file that has a record
\* reuses it
C1_OneRecordPerFile ==
    \A z \in DOMAIN Ledger :
        \A a, b \in 1 .. Len(Ledger[z]) :
            Ledger[z][a].arquivo = Ledger[z][b].arquivo => a = b

\* C1 witness: a record received entries from two saves (two timestamps)
C1_Witness_RecordReused ==
    \E z \in DOMAIN Ledger : \E a \in 1 .. Len(Ledger[z]) :
        {0, 1} \subseteq Stamps(Ledger[z][a].erros)

\* C2: no record of the ledger has two entries in `erros` with the same
\* (nome, descricao), also when one pending selection holds a pair twice
C2_NoDuplicateErro ==
    \A z \in DOMAIN Ledger : \A a \in 1 .. Len(Ledger[z]) :
        \A i, j \in 1 .. Len(Ledger[z][a].erros) :
            (/\ Ledger[z][a].erros[i].nome = Ledger[z][a].erros[j].nome
             /\ Ledger[z][a].erros[i].descricao = Ledger[z][a].erros[j].descricao)
            => i = j

\* C2 witness: the first save of the session had one pair twice in its
\* selection, with two ratings, and stored it once
C2_Witness_PairTwiceInSelection ==
    /\ clock = 1
    /\ last_save.ret
    /\ last_save.rating_kept
    /\ \E z \in DOMAIN Ledger : \E a \in 1 .. Len(Ledger[z]) : Len(Ledger[z][a].erros) = 1

\* C3: upsert is idempotent: in every state in which a save is accepted,
\* saving the same archive, file and rated errors a second time (one clock
\* tick later) gives the ledger the first save gave
C3_UpsertIdempotent ==
    SaveReady =>
        LET item == media_files[current_media_index + 1]
            once == upsert(Ledger, current_zip_name, item, erros_atuais, clock)
            twice == upsert(once, current_zip_name, item, erros_atuais, clock + 1)
        IN twice = once

\* C3 witness: a save is accepted for a file that has a record, and the save
\* adds an entry to it
C3_Witness_SaveAddsToRecord ==
    /\ SaveReady
    /\ RecordOfCurrent(Ledger) # <<>>
    /\ upsert(Ledger, current_zip_name, media_files[current_media_index + 1],
              erros_atuais, clock) # Ledger

\* C4: a save for (archive, file) changes the ledger only by adding a record
\* for the pair when there is none and by appending entries to that record:
\* the fields and the entries of an existing record (ratings and timestamps
\* included), the other records of the archive and the records of the other
\* archives stay as they were
C4_SaveFrame ==
    [][SaveStep =>
         LET z == current_zip_name
             f == media_files[current_media_index + 1].filename
             old == Records(Ledger, z)
             new == Records(Ledger', z)
         IN /\ DOMAIN Ledger' = DOMAIN Ledger \cup {z}
            /\ \A y \in DOMAIN Ledger \ {z} : Ledger'[y] = Ledger[y]
            /\ Len(new) = IF f \in RecordedFiles(Ledger, z) THEN Len(old) ELSE Len(old) + 1
            /\ \A k \in 1 .. Len(old) :
                  IF old[k].arquivo = f
                  THEN /\ new[k].arquivo = old[k].arquivo
                       /\ new[k].data = old[k].data
                       /\ new[k].id = old[k].id
                       /\ new[k].dedo = old[k].dedo
                       /\ IsPrefix(old[k].erros, new[k].erros)
                  ELSE new[k] = old[k]
            /\ Len(new) > Len(old) => new[Len(new)].arquivo = f
    ]_vars

\* C4 witness: the second save went to the record of the first one, appended
\* an entry, and skipped a pair it held with another rating
C4_Witness_FirstRatingKept ==
    /\ last_save.ret
    /\ last_save.rating_kept
    /\ \E z \in DOMAIN Ledger : \E a \in 1 .. Len(Ledger[z]) :
          {0, 1} \subseteq Stamps(Ledger[z][a].erros)

\* C5: load_resultado_json never raises; it returns the empty mapping when
\* the file is missing, unreadable or not parseable, the stored mapping otherwise
C5_LoadNeverRaises ==
    \A io \in BOOLEAN :
        LET r == load_resultado_json(resultado_file, io) IN
        /\ ~r.raised
        /\ r.value = IF io /\ resultado_file.kind = "ok"
                     THEN resultado_file.data ELSE EmptyDict

\* C5 witness: the file of a session with evaluated files holds no complete document
C5_Witness_UnparseableFile ==
    /\ resultado_file.kind = "partial"
    /\ evaluated_files # {}

\* C6 as stated: a save that fails returns False, the caller shows the
\* critical error, and the file holds its complete previous content or the
\* complete new content
C6_FailedSaveNotPartial ==
    [][(SaveStep /\ ~last_save'.ret) =>
         /\ last_save'.msg = "Erro Crítico"
         /\ \/ resultado_file' = resultado_file
            \/ \E io \in BOOLEAN :
                  resultado_file' =
                      FileOk(upsert(load_resultado_json(resultado_file, io).value,
                                    current_zip_name, media_files[current_media_index + 1],
                                    erros_atuais, clock))
    ]_vars

\* C7: a save that fails leaves the catalog, the index, the archive name, the
\* evaluated set, the pending errors with their ratings and the rating dialog
\* as they were, so the save is accepted again; a save that succeeds, a
\* repeated one included, leaves in the record of the file every pending
\* pair, and appends nothing but pending errors
C7_FailedSaveKeepsSession ==
    [][SaveStep =>
         IF ~last_save'.ret
         THEN /\ UNCHANGED <<media_files, current_media_index, current_zip_name,
                             evaluated_files, erros_atuais, ultimo_estado_avaliacao,
                             avaliacao_dialog>>
              /\ SaveReady'
         ELSE LET f == media_files[current_media_index + 1].filename
                  lst == Records(Ledger', current_zip_name)
                  pos == FindEntrada(lst, 1, f)
              IN /\ pos # 0
                 /\ Pairs(erros_atuais) \subseteq Pairs(lst[pos].erros)
                 /\ \A j \in 1 .. Len(lst[pos].erros) :
                       lst[pos].erros[j].timestamp = clock =>
                           \E k \in 1 .. Len(erros_atuais) :
                               /\ erros_atuais[k].nome = lst[pos].erros[j].nome
                               /\ erros_atuais[k].descricao = lst[pos].erros[j].descricao
                               /\ erros_atuais[k].avaliacao = lst[pos].erros[j].avaliacao
    ]_vars

\* C7 witness: a save failed and the save repeated after it succeeded
C7_Witness_RetrySucceeded ==
    /\ last_save.ret
    /\ last_save.after_failure
    /\ Ledger # EmptyDict

\* C8: after load_progress_data the evaluated set is the set of `arquivo`
\* values the ledger holds under the current archive name, empty when the
\* archive has no entry; records of other archives add nothing
C8_EvaluatedFromLedger ==
    [][ProgressLoadStep =>
         evaluated_files' = RecordedFiles(Ledger, current_zip_name)]_vars

\* C8 witness: a file of the first archive was saved, then a file of the
\* second one, then the first archive was loaded again: the evaluated set is
\* the first archive's file alone
C8_Witness_OtherArchiveIgnored ==
    /\ current_zip_name = "C_2024 05.zip"
    /\ media_files # <<>>
    /\ "B.zip" \in DOMAIN Ledger
    /\ "C_2024 05.zip" \in DOMAIN Ledger
    /\ Stamps(Ledger["C_2024 05.zip"][1].erros) = {0}
    /\ Stamps(Ledger["B.zip"][1].erros) = {1}
    /\ evaluated_files = {Ledger["C_2024 05.zip"][1].arquivo}
    /\ Ledger["B.zip"][1].arquivo \notin evaluated_files

\* C9: every error entry in the ledger has a rating in 1..5, whatever the
\* order of selecting errors, clicking stars, confirming, cancelling,
\* reopening the dialog and saving
C9_RatingInRange ==
    \A z \in DOMAIN Ledger : \A a \in 1 .. Len(Ledger[z]) :
        \A j \in 1 .. Len(Ledger[z][a].erros) :
            Ledger[z][a].erros[j].avaliacao \in 1 .. NumStars

\* C9 witness: one record holds an entry rated 1 and an entry rated 5
C9_Witness_BothEndsStored ==
    \E z \in DOMAIN Ledger : \E a \in 1 .. Len(Ledger[z]) :
        \E i, j \in 1 .. Len(Ledger[z][a].erros) :
            /\ Ledger[z][a].erros[i].avaliacao = 1
            /\ Ledger[z][a].erros[j].avaliacao = NumStars

\* the positions of the terminal events (finished, error) among the events
\* a thread emitted
Terminals(emitted) ==
    {j \in 1 .. Len(emitted) : emitted[j].sig \in {"finished", "error"}}

\* C10: a run of the loader thread emits no terminal event while it runs and
\* exactly one when it has ended, as its last event; the completion event is
\* emitted only when every member was extracted and carries the catalog
\* organize_files builds; after a failure the error event is the only
\* terminal event
C10_OneTerminalEvent ==
    \A k \in 1 .. Len(threads) :
        LET t == threads[k]
            n == Len(t.emitted)
        IN /\ t.pc # "done" => Terminals(t.emitted) = {}
           /\ t.pc = "done" => Terminals(t.emitted) = {n}
           /\ (t.pc = "done" /\ t.emitted[n].sig = "finished") =>
                 /\ t.i = Len(ZipMembers(t.zip))
                 /\ t.emitted[n].media = organize_files(t.zip, t.dir.files)
           /\ (t.pc = "done" /\ t.i < Len(ZipMembers(t.zip))) =>
                 t.emitted[n].sig = "error"

\* C10 witness: a run failed on a member after it had extracted another one
C10_Witness_FailedAfterProgress ==
    \E k \in 1 .. Len(threads) :
        /\ threads[k].pc = "done"
        /\ threads[k].emitted[Len(threads[k].emitted)].sig = "error"
        /\ \E j \in 1 .. Len(threads[k].emitted) :
              threads[k].emitted[j].sig = "progress" /\ threads[k].emitted[j].val > 0

\* p is an integer nearest to 100 * done / total (whichever way a tie is rounded)
IsRounded(p, done, total) ==
    LET d == 100 * done - p * total
    IN 2 * (IF d < 0 THEN -d ELSE d) <= total

\* C11 as stated: the progress event emitted after member number j of a run
\* carries round(100 * j / total), and the value lies in 0..100
C11_ProgressIsRounded ==
    \A k \in 1 .. Len(threads) :
        \A j \in 1 .. threads[k].i :
            /\ threads[k].emitted[j + 1].sig = "progress"
            /\ threads[k].emitted[j + 1].val \in 0 .. 100
            /\ IsRounded(threads[k].emitted[j + 1].val, j, Len(ZipMembers(threads[k].zip)))

\* C12 as stated: at most one thread runs at any time, and while a thread
\* runs its scratch directory exists and holds every member it extracted
C12_WorkerOwnsScratchDir ==
    /\ Len(Running) <= 1
    /\ \A k \in 1 .. Len(threads) :
          threads[k].pc # "done" =>
              /\ threads[k].dir.exists
              /\ Len(threads[k].dir.files) = threads[k].i

\* the catalogs the threads that ended with the completion event emitted,
\* each with the files its thread found under temp_dir and the archive name
Catalogs ==
    {[zip |-> threads[k].zip, found |-> threads[k].dir.files,
      media |-> threads[k].emitted[Len(threads[k].emitted)].media] :
         k \in {j \in 1 .. Len(threads) :
                   /\ threads[j].pc = "done"
                   /\ threads[j].emitted[Len(threads[j].emitted)].sig = "finished"}}

\* the extensions C13 lists
SupportedExtensions == {"jpg", "jpeg", "png", "bmp", "gif", "webp", "tif", "tiff"}

\* C13: for every archive that extracts, the catalog has as many items as
\* the archive has files whose extension, case ignored, is supported, at any
\* folder depth; the other files are skipped and the run ends with the
\* completion event
C13_CatalogCountsSupported ==
    /\ \A c \in Catalogs :
          Len(c.media) = Cardinality({j \in 1 .. Len(c.found) :
                                         Lower(c.found[j].file.ext) \in SupportedExtensions})
    /\ \A k \in 1 .. Len(threads) :
          threads[k].pc = "done" =>
              threads[k].emitted[Len(threads[k].emitted)].sig = "finished"

\* C13 witness: of a text file and a .PNG file the catalog holds the .PNG one
C13_Witness_UpperCaseKept ==
    \E c \in Catalogs :
        /\ Len(c.found) = 2
        /\ \E j \in 1 .. 2 : c.found[j].file.ext = "txt"
        /\ Len(c.media) = 1
        /\ c.media[1].filename.ext = "PNG"

\* C14: the catalog is ascending by (data, id, filename), each component
\* compared as a string: every item's key is <= the key of the next item
C14_CatalogSorted ==
    \A c \in Catalogs :
        \A j \in 1 .. (Len(c.media) - 1) : KeyLeq(c.media[j], c.media[j + 1])

\* C14 witness: the walk found day "1" before day "1-" and the catalog has
\* them the other way round ("1-/" sorts before "1/")
C14_Witness_Reordered ==
    \E c \in Catalogs :
        /\ Len(c.found) = 2 /\ Len(c.media) = 2
        /\ c.found[1].dirs = <<"1", "S1">>
        /\ c.found[2].dirs = <<"1-", "S1">>
        /\ c.media[1].data[1] = "1-"
        /\ c.media[2].data[1] = "1"

\* position of the item with the path fp in the catalog media
PositionOf(media, fp) == CHOOSE p \in 1 .. Len(media) : media[p].file_path = fp

\* C15: the catalog is a permutation of the items of the kept files, and two
\* items with equal keys are in the order in which the walk found them
C15_SortStable ==
    \A c \in Catalogs :
        LET kept == KeptItems(c.zip, c.found) IN
        /\ Len(c.media) = Len(kept)
        /\ \A j \in 1 .. Len(kept) : \E p \in 1 .. Len(c.media) : c.media[p] = kept[j]
        /\ \A p, q \in 1 .. Len(c.media) : c.media[p] = c.media[q] => p = q
        /\ \A i, j \in 1 .. Len(kept) :
              (i < j /\ KeyLeq(kept[i], kept[j]) /\ KeyLeq(kept[j], kept[i]))
              => PositionOf(c.media, kept[i].file_path) < PositionOf(c.media, kept[j].file_path)

\* C15 witness: the walk found a/15/S1/indic_d.jpg before 15/S1/indic_d.jpg,
\* whose keys are equal, and the catalog has them in that order
C15_Witness_EqualKeys ==
    \E c \in Catalogs :
        /\ Len(c.media) = 2
        /\ c.media[1].file_path.dirs = <<"a", "15", "S1">>
        /\ c.media[2].file_path.dirs = <<"15", "S1">>
        /\ c.found[1].dirs = <<"a", "15", "S1">>

\* C16: for every kept file, with n the number of segments of its path below
\* the scratch directory: the day is segment n-2 when n >= 3, else "??"; the
\* id is segment n-1 when n >= 2, else "Unknown"; data is day, month, year
\* with month and year from the archive name
C16_DayAndIdFromPath ==
    \A c \in Catalogs : \A j \in 1 .. Len(c.media) :
        LET segs == c.media[j].file_path.dirs \o <<"file">>
            n == Len(segs)
        IN /\ c.media[j].data[1] = IF n >= 3 THEN segs[n - 2] ELSE "??"
           /\ c.media[j].id = IF n >= 2 THEN segs[n - 1] ELSE "Unknown"
           /\ c.media[j].data[2] = regex_date(c.zip)[2]
           /\ c.media[j].data[3] = regex_date(c.zip)[1]

\* C16 witness: a catalog with a file at the top (1 segment) and a file
\* three folders deep (4 segments), from the archive with a dated name
C16_Witness_ShallowAndDeep ==
    \E c \in Catalogs :
        /\ c.zip = "C_2024 05.zip"
        /\ \E i, j \in 1 .. Len(c.media) :
              /\ c.media[i].file_path.dirs = <<>>
              /\ c.media[i].data = <<"??", "05", "2024">>
              /\ c.media[i].id = "Unknown"
              /\ Len(c.media[j].file_path.dirs) = 3
              /\ c.media[j].data[1] = "15"

\* the positions of the finger tokens of a file name, case ignored
FingerTokens(stem) == {k \in 1 .. Len(stem) : finger_map(Lower(stem[k])) # ""}

\* the positions of the side tokens: d, e, or a digit followed by d or e
SideTokens(stem) ==
    {k \in 1 .. Len(stem) : Lower(stem[k]) \in {"d", "e"} \/ DigitSide(Lower(stem[k])) # ""}

\* the side a side token names
SideOf(token) ==
    IF Lower(token) = "d" \/ DigitSide(Lower(token)) = "d" THEN "Direita" ELSE "Esquerda"

\* the largest element of a set of positions that is not empty
Last(ps) == CHOOSE p \in ps : \A q \in ps : q <= p

\* C17 as stated: the label is "{finger} - {side}" when a finger and a side
\* were found, the one found when only one was, "Desconhecido" when none was
C17_LabelFromWhatWasFound ==
    \A c \in Catalogs : \A j \in 1 .. Len(c.media) :
        LET stem == c.media[j].filename.stem
            dedo == c.media[j].dedo
            fingers == {finger_map(Lower(stem[k])) : k \in FingerTokens(stem)}
            sides == {SideOf(stem[k]) : k \in SideTokens(stem)}
        IN IF fingers # {} /\ sides # {}
           THEN Len(dedo) = 2 /\ dedo[1] \in fingers /\ dedo[2] \in sides
           ELSE IF fingers # {} THEN Len(dedo) = 1 /\ dedo[1] \in fingers
           ELSE IF sides # {} THEN Len(dedo) = 1 /\ dedo[1] \in sides
           ELSE dedo = <<"Desconhecido">>

\* C18: the finger of the label is the one of the right-most finger token
\* and, when the label has a side, the side is the one of the right-most
\* side token, wherever the tokens of the other category stand and in
\* either letter case
C18_LastMatchWins ==
    \A c \in Catalogs : \A j \in 1 .. Len(c.media) :
        LET stem == c.media[j].filename.stem
            dedo == c.media[j].dedo
        IN FingerTokens(stem) # {} =>
              /\ dedo[1] = finger_map(Lower(stem[Last(FingerTokens(stem))]))
              /\ SideTokens(stem) # {} =>
                    /\ Len(dedo) = 2
                    /\ dedo[2] = SideOf(stem[Last(SideTokens(stem))])

\* C18 witness: two side tokens around a finger token in upper case, and two
\* finger tokens before a side token
C18_Witness_TwoOfACategory ==
    \/ \E c \in Catalogs :
          /\ c.media # <<>>
          /\ c.media[1].filename.stem = <<"d", "Indic", "1e">>
          /\ c.media[1].dedo = <<"Indicador", "Esquerda">>
    \/ \E c \in Catalogs :
          /\ c.media # <<>>
          /\ c.media[1].filename.stem = <<"indic", "medio", "2D">>
          /\ c.media[1].dedo = <<"Médio", "Direita">>

\* the thread started last: the one self.zip_thread and self.temp_dir name
LastThread == threads[Len(threads)]

\* this step is on_zip_finished for a catalog that is empty
EmptyCatalogStep ==
    /\ main_queue # <<>>
    /\ Head(main_queue).sig = "finished"
    /\ Head(main_queue).media = <<>>
    /\ main_queue' = Tail(main_queue)

\* C19: a thread that extracted an archive without a supported file ends
\* with the completion event and an empty catalog; handling that event
\* leaves the catalog empty and the index 0; and while the catalog is empty
\* no step selects errors, rates them or saves: the pending errors, the
\* rating dialog, the evaluated set and the ledger do not change
C19_EmptyArchiveBlocksSession ==
    /\ [](\A k \in 1 .. Len(threads) :
             (/\ threads[k].zip = "E.zip"
              /\ threads[k].pc = "done"
              /\ threads[k].i = Len(ZipMembers("E.zip")))
             => threads[k].emitted[Len(threads[k].emitted)] = Finished(<<>>))
    /\ [][(EmptyCatalogStep => (media_files' = <<>> /\ current_media_index' = 0))
          /\ ((media_files = <<>> /\ media_files' = <<>>) =>
                 UNCHANGED <<erros_atuais, avaliacao_dialog, ultimo_estado_avaliacao,
                             evaluated_files, resultado_file, clock, last_save>>)
       ]_vars

\* C19 witness: after a save in the archive with images, the archive without
\* images was loaded and its completion event handled
C19_Witness_EmptyArchiveLoaded ==
    /\ current_zip_name = "E.zip"
    /\ LoaderIdle
    /\ threads # <<>>
    /\ LastThread.emitted[Len(LastThread.emitted)] = Finished(<<>>)
    /\ media_files = <<>>
    /\ current_media_index = 0
    /\ Ledger # EmptyDict

\* this step handles the error signal of a thread
ErrorHandledStep ==
    /\ main_queue # <<>>
    /\ Head(main_queue).sig = "error"
    /\ main_queue' = Tail(main_queue)

\* this step is load_zip_file after a load that failed
LoadAfterFailureStep ==
    /\ threads # <<>>
    /\ LastThread.pc = "done"
    /\ LastThread.emitted[Len(LastThread.emitted)].sig = "error"
    /\ threads' # threads
    /\ threads'[Len(threads')].pc = "open"

\* C20: handling the error of a failed extraction leaves the session without
\* catalog, writes nothing to the ledger, leaves the scratch directory and
\* every other part of the session as it was, and leaves the loader idle; a
\* load started after it begins with a new worker and a new, empty scratch
\* directory, as the first load of a session does
C20_FailedLoadAborts ==
    [][/\ ErrorHandledStep =>
             /\ media_files' = <<>>
             /\ LoaderIdle'
             /\ UNCHANGED <<resultado_file, clock, threads, media_files, current_media_index,
                            current_zip_name, evaluated_files, erros_atuais,
                            ultimo_estado_avaliacao, avaliacao_dialog, last_save>>
       /\ LoadAfterFailureStep =>
             /\ threads' = <<[zip |-> current_zip_name',
                              dir |-> [exists |-> TRUE, files |-> <<>>],
                              pc |-> "open", i |-> 0, emitted |-> <<>>]>>
             /\ media_files' = <<>>
             /\ current_media_index' = 0
             /\ UNCHANGED resultado_file
    ]_vars

\* C20 witness: the load of a session that had saved an evaluation failed
\* after a member was extracted, and the error was handled
C20_Witness_FailureHandled ==
    /\ threads # <<>>
    /\ LastThread.pc = "done"
    /\ LastThread.emitted[Len(LastThread.emitted)].sig = "error"
    /\ main_queue = <<>>
    /\ media_files = <<>>
    /\ LastThread.dir.exists
    /\ LastThread.dir.files # <<>>
    /\ Ledger # EmptyDict

\* the (archive, file, nome, descricao) entries a ledger holds
Entries(data) ==
    UNION { UNION { { <<z, data[z][a].arquivo, pr[1], pr[2]>> : pr \in Pairs(data[z][a].erros) }
                    : a \in 1 .. Len(data[z]) }
            : z \in DOMAIN data }

\* this step is the write of the second instance
PeerWriteStep == peer.pc = "loaded" /\ peer'.pc = "idle"

\* C21: a successful save of this instance puts every pending error into the
\* file and keeps every entry the file held; the write of another instance
\* does the same whenever nobody wrote the file since that instance loaded
\* it. Only a write that follows another writer's write can drop an entry
\* (the witness shows that it does: last save wins)
C21_SaveLostOnlyByInterleaving ==
    [][/\ (SaveStep /\ ~PeerWriteStep /\ last_save'.ret) =>
             /\ Entries(Ledger) \subseteq Entries(Ledger')
             /\ \A pr \in Pairs(erros_atuais) :
                   <<current_zip_name, media_files[current_media_index + 1].filename,
                     pr[1], pr[2]>> \in Entries(Ledger')
       /\ (PeerWriteStep /\ peer.loaded = Ledger) =>
             /\ Entries(Ledger) \subseteq Entries(Ledger')
             /\ \A pr \in Pairs(peer.pendentes) :
                   <<peer.zip, peer.item[1].filename, pr[1], pr[2]>> \in Entries(Ledger')
    ]_vars

\* C21 witness: a file this instance evaluated with a successful save has no
\* record in resultado.json, which another instance wrote afterwards
C21_Witness_LostUpdate ==
    /\ last_save.ret
    /\ resultado_file.kind = "ok"
    /\ peer.pc = "idle"
    /\ LoaderIdle
    /\ media_files # <<>>
    /\ \E f \in evaluated_files : f \notin RecordedFiles(Ledger, current_zip_name)

\* the indexes of the catalog items with no record under the archive name
Unrecorded(media, data, zip) ==
    {i \in Range(Len(media)) : media[i + 1].filename \notin RecordedFiles(data, zip)}

\* the least element of a non-empty set of integers
Min(S) == CHOOSE x \in S : \A y \in S : x <= y

\* C22 as stated: handling the completion event of a non-empty catalog sets
\* the index to the smallest index whose item has no record in the ledger
\* under this archive name, and to 0 when every item has one
C22_ResumeAtFirstUnrecorded ==
    [][ProgressLoadStep =>
          LET U == Unrecorded(media_files', Ledger, current_zip_name)
          IN current_media_index' = IF U = {} THEN 0 ELSE Min(U)
    ]_vars

\* the indexes after the current one whose file name is not in the set ev
LaterUnevaluated(ev) ==
    {j \in Range(Len(media_files)) :
        j > current_media_index /\ media_files[j + 1].filename \notin ev}

\* C23: the jump at the end of a successful save moves the index to the
\* smallest later index whose file name is not in the evaluated set, leaves
\* it where it is when there is none (also when an earlier item is not
\* evaluated), and changes neither the catalog nor the evaluated set, which
\* is the set the save left: the old one and the name of the item saved
C23_JumpToNextUnevaluated ==
    [][(SaveStep /\ last_save'.ret) =>
          LET ev == evaluated_files \cup {media_files[current_media_index + 1].filename}
          IN /\ current_media_index' =
                   IF LaterUnevaluated(ev) = {} THEN current_media_index
                   ELSE Min(LaterUnevaluated(ev))
             /\ media_files' = media_files
             /\ evaluated_files' = ev
    ]_vars

\* C23 witness: the first save of the session was made on the last item of
\* a catalog of three; the index stayed on it although the first item is
\* not evaluated
C23_Witness_NoWrapAround ==
    /\ last_save.ret
    /\ clock = 1
    /\ erros_atuais = <<>>
    /\ Len(media_files) = 3
    /\ current_media_index = 2
    /\ media_files[3].filename \in evaluated_files
    /\ media_files[1].filename \notin evaluated_files

\* C24: a step that writes resultado.json, reads the clock for a timestamp
\* or reports a save starts in a state with a non-empty catalog, an archive
\* name, the index inside the catalog, a non-empty pending selection and a
\* rating on every pending error; from any other state salvar_anotacao
\* changes nothing
C24_SaveGuards ==
    [][(resultado_file' # resultado_file \/ clock' # clock \/ last_save' # last_save) =>
          /\ media_files # <<>>
          /\ current_zip_name # NoZip
          /\ current_media_index \in Range(Len(media_files))
          /\ erros_atuais # <<>>
          /\ \A k \in 1 .. Len(erros_atuais) : erros_atuais[k].avaliacao \in 1 .. NumStars
    ]_vars

\* C24 witness: after a save, the user can press save again with two errors
\* picked of which one is rated; nothing of the ledger changed since the save
C24_Witness_BlockedWithPartialRating ==
    /\ LoaderIdle
    /\ clock \in 1 .. (MaxClock - 1)
    /\ last_save.ret
    /\ Len(erros_atuais) = 2
    /\ erros_atuais[1].avaliacao # 0
    /\ erros_atuais[2].avaliacao = 0
    /\ \A z \in DOMAIN Ledger : \A a \in 1 .. Len(Ledger[z]) :
          Stamps(Ledger[z][a].erros) \subseteq Range(clock)

\* C25 as stated: a successful save puts the file name of the item into the
\* evaluated set and clears the pending selection and the stashed ratings;
\* the name stays in the set while the catalog stays loaded; and a load of
\* the archive (what a later session does first) finds in its evaluated set
\* every file name recorded under the archive name
C25_SavedStaysEvaluated ==
    [][/\ (SaveStep /\ last_save'.ret) =>
             /\ media_files[current_media_index + 1].filename \in evaluated_files'
             /\ erros_atuais' = <<>>
             /\ (ultimo_estado_avaliacao'.none \/ DOMAIN ultimo_estado_avaliacao'.d = {})
       /\ (media_files # <<>> /\ media_files' = media_files) =>
             evaluated_files \subseteq evaluated_files'
       /\ ProgressLoadStep =>
             RecordedFiles(Ledger, current_zip_name) \subseteq evaluated_files'
    ]_vars

\* this step changes the index and nothing else: next_image or prev_image
NavigationStep ==
    /\ current_media_index' # current_media_index
    /\ UNCHANGED <<resultado_file, clock, media_files, current_zip_name, evaluated_files,
                   erros_atuais, ultimo_estado_avaliacao, avaliacao_dialog, last_save,
                   threads, main_queue, peer>>

\* C26: whenever the catalog is not empty the index is one of its positions,
\* after any sequence of loads, next_image, prev_image, saves and jumps; a
\* step of next_image or prev_image moves the index by exactly one and never
\* off either end of the catalog
C26_IndexInBounds ==
    /\ [](media_files # <<>> => current_media_index \in Range(Len(media_files)))
    /\ [][NavigationStep =>
             /\ (current_media_index' = current_media_index + 1
                 \/ current_media_index' = current_media_index - 1)
             /\ current_media_index' \in Range(Len(media_files))
       ]_vars

\* C26 witness: next_image moved the index to the last of three items (no
\* save has moved it: nothing is evaluated), and next_image can be pressed
\* again there
C26_Witness_AtLastItem ==
    /\ LoaderIdle
    /\ Len(media_files) = 3
    /\ current_media_index = 2
    /\ evaluated_files = {}
    /\ clock = 0

\* the ledger holds, under the current archive name, a record made for this
\* very catalog item: its file name, its folder id and its date
HasOwnRecord(item) ==
    \E k \in 1 .. Len(Records(Ledger, current_zip_name)) :
        /\ Records(Ledger, current_zip_name)[k].arquivo = item.filename
        /\ Records(Ledger, current_zip_name)[k].id = item.id
        /\ Records(Ledger, current_zip_name)[k].data = item.data

\* C27 as stated: a catalog item counts as evaluated (its file name is in the
\* evaluated set, so resume and jump skip it) only if an evaluation of that
\* very item was saved, in this session or an earlier one; an item that
\* shares its file name with an evaluated item of another folder does not
C27_EvaluatedOnlyIfSaved ==
    (LoaderIdle /\ media_files # <<>>) =>
        \A i \in 1 .. Len(media_files) :
            media_files[i].filename \in evaluated_files => HasOwnRecord(media_files[i])

\* C28 as stated: the catalog shown is the catalog of an archive file whose
\* base name is current_zip_name, in every state, also when load_zip_file
\* is invoked again before the completion event of an earlier extraction
\* was handled
C28_CatalogOfCurrentArchive ==
    media_files # <<>> =>
        \E zip \in Archives :
            /\ Basename(zip) = current_zip_name
            /\ media_files = organize_files(zip, ZipMembers(zip))

\* C29 as stated: every (archive, file, nome, descricao) entry that
\* resultado.json holds before a successful save is in it after the save,
\* also when the read at the start of that save fails
C29_LedgerOnlyGrows ==
    [][(SaveStep /\ last_save'.ret) => Entries(Ledger) \subseteq Entries(Ledger')]_vars

\* this step is abrir_janela_avaliacao creating and showing a dialog
DialogCreatedStep == ~avaliacao_dialog.visible /\ avaliacao_dialog'.visible

\* this step is processar_avaliacoes writing ratings into the pending errors
RatingsAppliedStep ==
    /\ erros_atuais' # erros_atuais
    /\ ErroKeys(erros_atuais') = ErroKeys(erros_atuais)

\* C30 as stated: a rating attached to a pending error was given to that
\* same (nome, descricao) error. A dialog that opens with restored ratings
\* shows each of them on the error it had in the dialog they were stashed
\* from, and a confirmed rating is written to the pending error that the
\* dialog showed in that row
C30_RatingBelongsToItsError ==
    [][/\ DialogCreatedStep =>
             \A idx \in DOMAIN avaliacao_dialog'.avaliacoes :
                 /\ idx + 1 <= Len(avaliacao_dialog.erros)
                 /\ avaliacao_dialog.erros[idx + 1] = avaliacao_dialog'.erros[idx + 1]
       /\ RatingsAppliedStep =>
             \A k \in 1 .. Len(erros_atuais) :
                 erros_atuais'[k].avaliacao # erros_atuais[k].avaliacao =>
                     /\ k <= Len(avaliacao_dialog.erros)
                     /\ avaliacao_dialog.erros[k] = ErroKeys(erros_atuais)[k]
    ]_vars

=============================================================================
